---- MODULE Spec2Model ----
(***************************************************************************)
(* The query / aggregation / decomposition pipeline of the climate         *)
(* dashboard: the Departments page (src/frontend/pages/Departments.py) and *)
(* the Station Data page (src/frontend/pages/Station_Data.py), run against *)
(* a read-only store of stations and measurements.                         *)
(*                                                                         *)
(* Encodings.  A timestamp 'YYYY-MM-DD' is the pair <<year, day>> (day 1   *)
(* is Jan 1); the text comparison SQLite makes on such strings is the      *)
(* lexicographic order of the pairs.  A nullable stored value is <<>>      *)
(* (NULL) or <<v>>.  A number in a DataFrame column is NaN (<<>>) or the   *)
(* exact rational <<numerator, denominator>> with denominator > 0.  An SQL *)
(* value is <<"null">>, <<"int", n>> or <<"text", s>>.                     *)
(***************************************************************************)
EXTENDS Integers, Sequences, FiniteSets

VARIABLES
    stations,      \* table stations: station_id -> department_id (<<>> or <<n>>)
    measurements,  \* table measurements: sequence of rows, in rowid order
    page,          \* the script that ran last: "none", "Departments", ...
    widgets,       \* the widget values of that script's sidebar
    exception,     \* the exception that ended the run, or "none"
    tabs           \* what construct_charts computed and wrote, per chart type

vars == <<stations, measurements, page, widgets, exception, tabs>>

-----------------------------------------------------------------------------
(* Bounds of the model *)

MaxRows == 3     \* rows of a small store
MaxObs == 25     \* observations per variable of a long, regular store
NumYears == 2    \* years covered by the date family of stores
MaxDay == 2      \* days per year covered by the date family of stores

(* Program constants *)

period == 12     \* seasonal_decompose(..., period=12)
FirstYear == 2000

-----------------------------------------------------------------------------
(* Data *)

NULL == <<>>
NaN == <<>>

StationIds == {"S1", "S2"}
Variables == {"TN", "TX", "RR"}
Values == {NULL, <<0>>, <<1>>}
AggMethods == {"mean", "median"}
ChartTypes == {"temperature", "precipitation"}

\* The department codes of the geographic file ("2A" is Corse-du-Sud).
GeoCodes == {"13", "75", "2A"}

\* The decimal strings of the model and the number each one denotes.
DecimalValue == [s \in {"13", "75"} |-> IF s = "13" THEN 13 ELSE 75]

Years == FirstYear .. (FirstYear + NumYears - 1)

Row(s, v, t, x) == [station_id |-> s, variable |-> v, timestamp |-> t, value |-> x]

\* 'a <= b' on timestamps: the order of the strings 'YYYY-MM-DD'.
TsLeq(a, b) == a[1] < b[1] \/ (a[1] = b[1] /\ a[2] <= b[2])

\* Exact rationals.
RatLeq(a, b) == a[1] * b[2] <= b[1] * a[2]

-----------------------------------------------------------------------------
(* Small helpers on sequences and sets *)

RECURSIVE SeqSum(_)
SeqSum(s) == IF s = <<>> THEN 0 ELSE Head(s) + SeqSum(Tail(s))

RECURSIVE Insert(_, _)
Insert(x, s) ==
    IF s = <<>> THEN <<x>>
    ELSE IF x <= Head(s) THEN <<x>> \o s
    ELSE <<Head(s)>> \o Insert(x, Tail(s))

\* The integers of s in ascending order.
RECURSIVE Sorted(_)
Sorted(s) == IF s = <<>> THEN <<>> ELSE Insert(Head(s), Sorted(Tail(s)))

\* The timestamps of the set S in ascending order.
RECURSIVE SortTimestamps(_)
SortTimestamps(S) ==
    IF S = {} THEN <<>>
    ELSE LET m == CHOOSE x \in S : \A y \in S : TsLeq(x, y)
         IN <<m>> \o SortTimestamps(S \ {m})

RECURSIVE SetToSeq(_)
SetToSeq(S) ==
    IF S = {} THEN <<>>
    ELSE LET x == CHOOSE y \in S : TRUE IN <<x>> \o SetToSeq(S \ {x})

RECURSIVE Flatten(_)
Flatten(ss) == IF ss = <<>> THEN <<>> ELSE Head(ss) \o Flatten(Tail(ss))

-----------------------------------------------------------------------------
(* Store Access: the SQL the pages send *)

SqlNull == <<"null">>
SqlInt(n) == <<"int", n>>
SqlText(s) == <<"text", s>>

\* The SQL comparison a = b: NULL (not true) when either side is NULL.
SqlEq(a, b) == a[1] # "null" /\ b[1] # "null" /\ a[1] = b[1] /\ a[2] = b[2]

StationColumns == {"station_id", "department_id"}

\* The columns of one row of a table, as SQL values.
StationRow(s) ==
    [station_id |-> SqlText(s),
     department_id |-> IF stations[s] = NULL THEN SqlNull ELSE SqlInt(stations[s][1])]

MeasurementRow(m) ==
    [station_id |-> SqlText(m.station_id),
     variable |-> SqlText(m.variable),
     timestamp |-> <<"text", m.timestamp>>,
     value |-> IF m.value = NULL THEN SqlNull ELSE SqlInt(m.value[1])]

\* f"... = {text}": the text is spliced into the query bare, so SQLite reads it
\* as an expression: a number, a column of the row in scope, or a token it
\* rejects.
BareParses(text, columns) == text \in DOMAIN DecimalValue \/ text \in columns

BareOperand(text, row) ==
    IF text \in DOMAIN DecimalValue THEN SqlInt(DecimalValue[text]) ELSE row[text]

\* f'... = "{text}"': SQLite reads a double-quoted token as a column of the row
\* in scope when one has that name, and as a string literal otherwise.
DoubleQuotedOperand(text, row) ==
    IF text \in DOMAIN row THEN row[text] ELSE SqlText(text)

\* f"... = '{text}'": a string literal.
SingleQuotedOperand(text) == SqlText(text)

\* f'"{year}-01-01"': no column has that name, so a string literal.
YearStart(year) == <<year, 1>>

\* SELECT station_id, department_id FROM stations WHERE department_id = {department_id}
DepartmentStations(department_id) ==
    {s \in StationIds :
        SqlEq(StationRow(s).department_id, BareOperand(department_id, StationRow(s)))}

\* InDateRange with the end year taken whole, up to its last day.
InDateRangeWholeEndYear(t, min_year, max_year) ==
    TsLeq(YearStart(min_year), t) /\ t[1] <= max_year

\* timestamp BETWEEN "{min_year}-01-01" AND "{max_year}-01-01"
InDateRange(t, min_year, max_year) ==
    TsLeq(YearStart(min_year), t) /\ TsLeq(t, YearStart(max_year))

\* The rows Departments.get_time_series reads.
DepartmentSeriesRows(department_id, variable, min_year, max_year) ==
    LET departments == DepartmentStations(department_id)
        Test(m) == /\ m.station_id \in departments
                   /\ SqlEq(MeasurementRow(m).variable, SingleQuotedOperand(variable))
                   /\ InDateRange(m.timestamp, min_year, max_year)
    IN SelectSeq(measurements, Test)

\* The rows get_department_timerange takes MIN and MAX over.
DepartmentRows(department_id) ==
    LET departments == DepartmentStations(department_id)
        Test(m) == m.station_id \in departments
    IN SelectSeq(measurements, Test)

\* Station_Data.get_time_series: SELECT * FROM measurements WHERE station_id =
\* "{station_id}" AND variable = "{variable}"
StationSeriesRows(station_id, variable) ==
    LET Test(m) ==
            /\ SqlEq(MeasurementRow(m).station_id,
                     DoubleQuotedOperand(station_id, MeasurementRow(m)))
            /\ SqlEq(MeasurementRow(m).variable,
                     DoubleQuotedOperand(variable, MeasurementRow(m)))
    IN SelectSeq(measurements, Test)

\* Station_Data.query_station_info: SELECT * FROM stations WHERE station_id =
\* "{station_id}"
query_station_info(station_id) ==
    {s \in StationIds :
        SqlEq(StationRow(s).station_id, DoubleQuotedOperand(station_id, StationRow(s)))}

\* Station_Data.get_station_list: the stations that have measurements.
get_station_list == {s \in StationIds : \E i \in 1 .. Len(measurements) :
                                            measurements[i].station_id = s}

-----------------------------------------------------------------------------
(* Aggregation Pipeline *)

\* The non-missing values of the rows at timestamp t, in row order.
ValuesAt(rows, t) ==
    LET Test(m) == m.timestamp = t /\ m.value # NULL
        kept == SelectSeq(rows, Test)
    IN [i \in 1 .. Len(kept) |-> kept[i].value[1]]

\* pandas "mean": NaN for no value, else sum / count.
Mean(vals) == IF vals = <<>> THEN NaN ELSE <<SeqSum(vals), Len(vals)>>

\* pandas "median": NaN for no value, else the middle of the sorted values
\* (the mean of the two middle ones for an even count).
Median(vals) ==
    LET n == Len(vals)
        srt == Sorted(vals)
    IN IF n = 0 THEN NaN
       ELSE IF n % 2 = 1 THEN <<srt[(n + 1) \div 2], 1>>
       ELSE <<srt[n \div 2] + srt[(n \div 2) + 1], 2>>

\* Agg with the method parameter ignored.
AggMeanOnly(agg_method, vals) == Mean(vals)

Agg(agg_method, vals) == IF agg_method = "median" THEN Median(vals) ELSE Mean(vals)

\* GroupByTimestamp without the grouping: one row per stored row.
GroupByNothing(rows, agg_method) ==
    [i \in 1 .. Len(rows) |->
        [timestamp |-> rows[i].timestamp,
         value |-> Agg(agg_method, ValuesAt(<<rows[i]>>, rows[i].timestamp))]]

\* df.groupby("timestamp")["value"].agg(agg_method).reset_index(): one row per
\* timestamp, in ascending order of timestamp.
GroupByTimestamp(rows, agg_method) ==
    LET keys == SortTimestamps({rows[i].timestamp : i \in 1 .. Len(rows)})
    IN [k \in 1 .. Len(keys) |->
            [timestamp |-> keys[k], value |-> Agg(agg_method, ValuesAt(rows, keys[k]))]]

\* Departments.get_time_series
DeptGetTimeSeries(department_id, variable, min_year, max_year, agg_method) ==
    GroupByTimestamp(
        DepartmentSeriesRows(department_id, variable, min_year, max_year), agg_method)

\* Station_Data.get_time_series: the stored rows as they are, no grouping.
StationGetTimeSeries(station_id, variable) ==
    LET rows == StationSeriesRows(station_id, variable)
    IN [i \in 1 .. Len(rows) |->
            [timestamp |-> rows[i].timestamp,
             value |-> IF rows[i].value = NULL THEN NaN ELSE <<rows[i].value[1], 1>>]]

\* Merge with the suffixes the wrong way round.
MergeSuffixesSwapped(tx, tn) ==
    LET Pairs(l) ==
            LET Test(r) == r.timestamp = l.timestamp
                hits == SelectSeq(tn, Test)
            IN [j \in 1 .. Len(hits) |->
                    [timestamp |-> l.timestamp,
                     value_max |-> hits[j].value,
                     value_min |-> l.value]]
    IN Flatten([i \in 1 .. Len(tx) |-> Pairs(tx[i])])

\* Merge as a left join: a tx row without a tn row is kept, value_min missing.
MergeLeft(tx, tn) ==
    LET Pairs(l) ==
            LET Test(r) == r.timestamp = l.timestamp
                hits == SelectSeq(tn, Test)
            IN IF hits = <<>>
               THEN <<[timestamp |-> l.timestamp, value_max |-> l.value,
                       value_min |-> NaN]>>
               ELSE [j \in 1 .. Len(hits) |->
                        [timestamp |-> l.timestamp,
                         value_max |-> l.value,
                         value_min |-> hits[j].value]]
    IN Flatten([i \in 1 .. Len(tx) |-> Pairs(tx[i])])

\* tx.merge(tn, on="timestamp", suffixes=("_max", "_min")): an inner join, one
\* row per pair of a tx row and a tn row with the same timestamp, in the order
\* of tx.
Merge(tx, tn) ==
    LET Pairs(l) ==
            LET Test(r) == r.timestamp = l.timestamp
                hits == SelectSeq(tn, Test)
            IN [j \in 1 .. Len(hits) |->
                    [timestamp |-> l.timestamp,
                     value_max |-> l.value,
                     value_min |-> hits[j].value]]
    IN Flatten([i \in 1 .. Len(tx) |-> Pairs(tx[i])])

\* The defined numbers of a column.
Column(df, col) == {df[i][col] : i \in {j \in 1 .. Len(df) : df[j][col] # NaN}}

\* df[col].min() and df[col].max(): missing values skipped, NaN for none.
ColMin(df, col) ==
    LET S == Column(df, col)
    IN IF S = {} THEN NaN ELSE CHOOSE x \in S : \A y \in S : RatLeq(x, y)

ColMax(df, col) ==
    LET S == Column(df, col)
    IN IF S = {} THEN NaN ELSE CHOOSE x \in S : \A y \in S : RatLeq(y, x)

\* The table of a chart type and the (min, max) scale of its y axis.
ChartFrame(type, tn, tx, rr) == IF type = "temperature" THEN Merge(tx, tn) ELSE rr

MinMaxScale(type, df) ==
    IF type = "temperature"
    THEN <<ColMin(df, "value_min"), ColMax(df, "value_max")>>
    ELSE <<ColMin(df, "value"), ColMax(df, "value")>>

DecompositionX(type) == IF type = "temperature" THEN "value_max" ELSE "value"

-----------------------------------------------------------------------------
(* Charts and the Decomposition Pipeline *)

NoDataMessage == "No data available for this station."
NotEnoughMessage == "Not enough data to decompose the time series."

\* statsmodels' seasonal_decompose raises ValueError for a series with a
\* missing value and for one with fewer than 2 * period observations.
SeasonalDecomposeRaises(series) ==
    \/ \E i \in 1 .. Len(series) : series[i] = NaN
    \/ Len(series) < 2 * period

\* "### Historical Evolution": the chart, or the message of the except branch.
HistoricalStep(df) == IF df = <<>> THEN NoDataMessage ELSE "historical_chart"

\* DecompositionStep without its "except ValueError": the error leaves
\* construct_charts.
DecompositionStepUncaught(df, col) ==
    LET series == [i \in 1 .. Len(df) |-> df[i][col]]
    IN IF SeasonalDecomposeRaises(series)
       THEN [calls |-> <<series>>, written |-> "", df_dcom |-> <<>>,
             raised |-> "ValueError"]
       ELSE [calls |-> <<series>>, written |-> "decomposition_chart",
             df_dcom |-> [i \in 1 .. Len(df) |-> df[i].timestamp], raised |-> "none"]

\* "### Seasonal Decomposition": seasonal_decompose is called on the column
\* whatever the table holds; a ValueError it raises is caught and reported.
DecompositionStep(df, col) ==
    LET series == [i \in 1 .. Len(df) |-> df[i][col]]
    IN IF SeasonalDecomposeRaises(series)
       THEN [calls |-> <<series>>, written |-> NotEnoughMessage,
             df_dcom |-> <<>>, raised |-> "none"]
       ELSE [calls |-> <<series>>, written |-> "decomposition_chart",
             df_dcom |-> [i \in 1 .. Len(df) |-> df[i].timestamp], raised |-> "none"]

\* construct_charts from the table on: what it computes and writes.
Charts(type, df, inputs) ==
    LET dec == DecompositionStep(df, DecompositionX(type))
    IN [df |-> df,
        inputs |-> inputs,
        min_max_scale |-> MinMaxScale(type, df),
        written |-> <<HistoricalStep(df), dec.written>>,
        decompose_calls |-> dec.calls,
        df_dcom |-> dec.df_dcom,
        raised |-> dec.raised]

\* Departments.construct_charts(type, department, time_range, agg_method)
DeptConstructCharts(type, department, time_range, agg_method) ==
    LET Series(v) == DeptGetTimeSeries(department, v, time_range[1], time_range[2],
                                       agg_method)
        tn == IF type = "temperature" THEN Series("TN") ELSE <<>>
        tx == IF type = "temperature" THEN Series("TX") ELSE <<>>
        rr == IF type = "precipitation" THEN Series("RR") ELSE <<>>
    IN Charts(type, ChartFrame(type, tn, tx, rr), [tn |-> tn, tx |-> tx])

\* Station_Data.construct_charts(type, station_id)
StationConstructCharts(type, station_id) ==
    LET tn == IF type = "temperature" THEN StationGetTimeSeries(station_id, "TN") ELSE <<>>
        tx == IF type = "temperature" THEN StationGetTimeSeries(station_id, "TX") ELSE <<>>
        rr == IF type = "precipitation" THEN StationGetTimeSeries(station_id, "RR") ELSE <<>>
    IN Charts(type, ChartFrame(type, tn, tx, rr), [tn |-> tn, tx |-> tx])

-----------------------------------------------------------------------------
(* The sidebar of the Departments page *)

\* get_station_department_mapping().groupby("department_id").size()
\*     .loc[int(department)]: int() raises ValueError for a code that is not
\* a decimal number, and .loc raises KeyError for a department no station has.
StationCountRaises(department) ==
    IF department \notin DOMAIN DecimalValue THEN "ValueError"
    ELSE IF \A s \in StationIds : stations[s] # <<DecimalValue[department]>>
    THEN "KeyError"
    ELSE "none"

\* int(timestamp[:4])
YearOf(t) == t[1]

\* get_department_timerange: SQLite rejects a department it cannot read as an
\* expression; MIN and MAX over no row are NULL, and None[:4] raises TypeError.
TimerangeRaises(department_id) ==
    IF ~BareParses(department_id, StationColumns) THEN "DatabaseError"
    ELSE IF DepartmentRows(department_id) = <<>> THEN "TypeError"
    ELSE "none"

get_department_timerange(department_id) ==
    LET rows == DepartmentRows(department_id)
        S == {rows[i].timestamp : i \in 1 .. Len(rows)}
        min_time == CHOOSE x \in S : \A y \in S : TsLeq(x, y)
        max_time == CHOOSE x \in S : \A y \in S : TsLeq(y, x)
    IN <<YearOf(min_time), YearOf(max_time)>>

SidebarRaises(department) ==
    IF StationCountRaises(department) # "none" THEN StationCountRaises(department)
    ELSE TimerangeRaises(department)

-----------------------------------------------------------------------------
(* Stores *)

\* The non-decreasing sequences of at most k numbers of 1 .. n.
RECURSIVE NonDecreasing(_, _)
NonDecreasing(n, k) ==
    IF k = 0 THEN {<<>>}
    ELSE LET prev == NonDecreasing(n, k - 1)
         IN prev \cup
            {Append(p[1], p[2]) :
                p \in {q \in prev \X (1 .. n) :
                          Len(q[1]) = k - 1 /\ (k = 1 \/ q[1][k - 1] <= q[2])}}

\* The tables of at most k rows of R (rows may repeat), one per multiset.
SmallStores(R, k) ==
    LET dom == SetToSeq(R)
    IN {[i \in 1 .. Len(ix) |-> dom[ix[i]]] : ix \in NonDecreasing(Len(dom), k)}

TemperatureRows ==
    {Row(s, v, <<y, 1>>, x) :
        s \in StationIds, v \in {"TN", "TX"}, y \in {FirstYear, FirstYear + 1},
        x \in Values \ {NULL}}

PrecipitationRows ==
    {Row(s, "RR", <<y, 1>>, x) :
        s \in StationIds, y \in {FirstYear, FirstYear + 1}, x \in Values}

DateRows == {Row("S1", "RR", <<y, d>>, <<1>>) : y \in Years, d \in 1 .. MaxDay}

StationTables ==
    {[s \in StationIds |-> IF s = "S1" THEN <<75>> ELSE d] : d \in {<<75>>, <<13>>}}

\* A long regular store of station S1: n daily TX rows, m daily TN rows and m
\* daily RR rows, the last day of each being Jan 1 of the next year; with
\* missing, the first TX value and the first RR value are NULL.
LongDates(n) == [i \in 1 .. n |-> IF i < n THEN <<FirstYear, i>> ELSE <<FirstYear + 1, 1>>]

LongStore(n, m, missing) ==
    LET First(i) == IF missing /\ i = 1 THEN NULL ELSE <<1>>
    IN [i \in 1 .. n |-> Row("S1", "TX", LongDates(n)[i], First(i))]
       \o [i \in 1 .. m |-> Row("S1", "TN", LongDates(m)[i], <<1>>)]
       \o [i \in 1 .. m |-> Row("S1", "RR", LongDates(m)[i], First(i))]

LongStores == {LongStore(n, m, b) : n \in 0 .. MaxObs, m \in {0, MaxObs}, b \in BOOLEAN}
                  \cup {LongStore(n, n, b) : n \in 0 .. MaxObs, b \in BOOLEAN}

-----------------------------------------------------------------------------
(* The pages *)

NoWidgets ==
    [department |-> "", slider |-> <<0, 0>>, time_range |-> <<0, 0>>,
     agg_method |-> "mean", station_id |-> ""]

NoTabs == <<>>

FirstRaised(t) ==
    IF t["temperature"].raised # "none" THEN t["temperature"].raised
    ELSE t["precipitation"].raised

\* One run of Departments.display_page from the widgets on: both tabs.
DepartmentsRun(department, slider, time_range, agg_method) ==
    LET t == [type \in ChartTypes |->
                 DeptConstructCharts(type, department, time_range, agg_method)]
    IN /\ page' = "Departments"
       /\ widgets' = [department |-> department, slider |-> slider,
                      time_range |-> time_range, agg_method |-> agg_method,
                      station_id |-> ""]
       /\ exception' = FirstRaised(t)
       /\ tabs' = t
       /\ UNCHANGED <<stations, measurements>>

InitRun ==
    /\ page = "none"
    /\ widgets = NoWidgets
    /\ exception = "none"
    /\ tabs = NoTabs

Init ==
    /\ \/ /\ stations \in StationTables
          /\ measurements \in SmallStores(TemperatureRows, MaxRows)
                                \cup SmallStores(DateRows, MaxRows)
       \/ /\ stations = [s \in StationIds |-> <<75>>]
          /\ measurements \in SmallStores(PrecipitationRows, MaxRows + 1)
                                \cup LongStores
    /\ InitRun

\* The user picks a department on the Departments page: the script runs with
\* the slider at its default, the full range, and stops at the first exception.
\* (Each page is a script of its own; a session stays on the page it opened.)
SelectDepartment(d) ==
    /\ page \in {"none", "Departments"}
    /\ d \in GeoCodes
    /\ IF SidebarRaises(d) # "none"
       THEN /\ page' = "Departments"
            /\ widgets' = [NoWidgets EXCEPT !.department = d]
            /\ exception' = SidebarRaises(d)
            /\ tabs' = NoTabs
            /\ UNCHANGED <<stations, measurements>>
       ELSE LET bounds == get_department_timerange(d)
            IN DepartmentsRun(d, bounds, bounds,
                              IF page = "Departments" THEN widgets.agg_method ELSE "mean")

\* The user moves the "Time Range" slider within the department's years.
MoveSlider(lo, hi) ==
    /\ page = "Departments"
    /\ exception = "none"
    /\ widgets.slider[1] <= lo
    /\ lo <= hi
    /\ hi <= widgets.slider[2]
    /\ <<lo, hi>> # widgets.time_range
    /\ DepartmentsRun(widgets.department, widgets.slider, <<lo, hi>>, widgets.agg_method)

\* The user picks the other aggregation method.
SelectAggMethod(m) ==
    /\ page = "Departments"
    /\ exception = "none"
    /\ m \in AggMethods
    /\ m # widgets.agg_method
    /\ DepartmentsRun(widgets.department, widgets.slider, widgets.time_range, m)

\* The user picks a station on the Station Data page: both tabs.
SelectStation(s) ==
    /\ page \in {"none", "Station_Data"}
    /\ s \in get_station_list
    /\ LET t == [type \in ChartTypes |-> StationConstructCharts(type, s)]
       IN /\ page' = "Station_Data"
          /\ widgets' = [NoWidgets EXCEPT !.station_id = s]
          /\ exception' = FirstRaised(t)
          /\ tabs' = t
          /\ UNCHANGED <<stations, measurements>>

Next ==
    \/ \E d \in GeoCodes : SelectDepartment(d)
    \/ \E lo \in FirstYear .. (FirstYear + NumYears), hi \in FirstYear .. (FirstYear + NumYears) :
            MoveSlider(lo, hi)
    \/ \E m \in AggMethods : SelectAggMethod(m)
    \/ \E s \in StationIds : SelectStation(s)

Spec == Init /\ [][Next]_vars

-----------------------------------------------------------------------------
(* Properties *)

\* construct_charts ran for both tabs in the last run.
ChartsRan == DOMAIN tabs = ChartTypes

\* C1: whatever department of the geographic file is picked, the run of
\* display_page ends without an exception, and for a department without
\* measurements both tabs report "no data".
C1_DisplayPageNeverRaises ==
    page = "Departments" =>
        /\ exception = "none"
        /\ ChartsRan
        /\ DepartmentRows(widgets.department) = <<>> =>
               \A type \in ChartTypes : tabs[type].written[1] = NoDataMessage

\* C2: every series of fewer than 2 * period observations handed to the
\* decomposition ends in the "Not enough data" message: no exception leaves
\* construct_charts and no decomposition table is rendered.
C2_ShortSeriesNotDecomposed ==
    ChartsRan =>
        \A type \in ChartTypes :
            \A k \in 1 .. Len(tabs[type].decompose_calls) :
                Len(tabs[type].decompose_calls[k]) < 2 * period =>
                    /\ tabs[type].raised = "none"
                    /\ exception = "none"
                    /\ tabs[type].written[2] = NotEnoughMessage
                    /\ tabs[type].df_dcom = <<>>

\* A run whose series is one observation short of two periods, with no value
\* missing, and reports "Not enough data".
C2_Witness ==
    /\ ChartsRan
    /\ \E type \in ChartTypes :
          /\ tabs[type].decompose_calls # <<>>
          /\ Len(tabs[type].decompose_calls[1]) = 2 * period - 1
          /\ \A i \in 1 .. 2 * period - 1 : tabs[type].decompose_calls[1][i] # NaN
          /\ tabs[type].written[2] = NotEnoughMessage

\* C3: an empty table suppresses the decomposition: seasonal_decompose is not
\* called on it and "No data" is the only outcome reported.
C3_EmptyTableSkipsDecomposition ==
    ChartsRan =>
        \A type \in ChartTypes :
            tabs[type].df = <<>> =>
                /\ tabs[type].decompose_calls = <<>>
                /\ tabs[type].written[1] = NoDataMessage
                /\ tabs[type].written[2] # NotEnoughMessage

\* The measurement rows (by position) of the selected department's stations.
InDepartment(i) ==
    stations[measurements[i].station_id] = <<DecimalValue[widgets.department]>>

\* A timestamp within the selected time range: from Jan 1 of the first year up
\* to and including Jan 1 of the last year.
InTimeRange(t) ==
    \/ widgets.time_range[1] <= t[1] /\ t[1] < widgets.time_range[2]
    \/ t[1] = widgets.time_range[2] /\ t[2] = 1 /\ widgets.time_range[1] <= t[1]

\* The rows of a variable the Departments page is to use.
Selected(v) ==
    {i \in 1 .. Len(measurements) :
        /\ InDepartment(i)
        /\ measurements[i].variable = v
        /\ InTimeRange(measurements[i].timestamp)}

\* The aggregated series of a variable in the last run of the Departments page.
SeriesOf(v) ==
    IF v = "RR" THEN tabs["precipitation"].df
    ELSE IF v = "TN" THEN tabs["temperature"].inputs.tn
    ELSE tabs["temperature"].inputs.tx

Timestamps(df) == {df[i].timestamp : i \in 1 .. Len(df)}

UniqueTimestamps(df) ==
    \A i, j \in 1 .. Len(df) : df[i].timestamp = df[j].timestamp => i = j

\* The non-missing values station s has for variable v at timestamp t.
StationValuesAt(s, v, t) ==
    {i \in 1 .. Len(measurements) :
        /\ measurements[i].station_id = s
        /\ measurements[i].variable = v
        /\ measurements[i].timestamp = t
        /\ measurements[i].value # NULL}

\* At timestamp t every station of the department has no TN and no TX value,
\* or one of each with TN <= TX.
PairedAt(t) ==
    \A s \in {x \in StationIds : stations[x] = <<DecimalValue[widgets.department]>>} :
        LET a == StationValuesAt(s, "TN", t)
            b == StationValuesAt(s, "TX", t)
        IN \/ a = {} /\ b = {}
           \/ /\ Cardinality(a) = 1
              /\ Cardinality(b) = 1
              /\ \A i \in a, j \in b : measurements[i].value[1] <= measurements[j].value[1]

C5_InnerJoinTimestamps ==
    ChartsRan =>
        Timestamps(tabs["temperature"].df) =
            Timestamps(tabs["temperature"].inputs.tx)
                \cap Timestamps(tabs["temperature"].inputs.tn)

\* A joined table with a row, beside a timestamp that only one series has.
C5_Witness ==
    /\ ChartsRan
    /\ page = "Departments" => widgets.slider[1] < widgets.slider[2]
    /\ tabs["temperature"].df # <<>>
    /\ Timestamps(tabs["temperature"].inputs.tx)
           # Timestamps(tabs["temperature"].inputs.tn)

\* C6 as claimed: on both pages no timestamp occurs in two rows of a table.
C6_UniqueTimestamps ==
    ChartsRan => \A type \in ChartTypes : UniqueTimestamps(tabs[type].df)

\* The rows of a table at timestamp t.
RowsAt(df, t) == Cardinality({i \in 1 .. Len(df) : df[i].timestamp = t})

\* The stored rows of the selected station for variable v at timestamp t.
StoredAt(v, t) ==
    Cardinality({i \in 1 .. Len(measurements) :
                    /\ measurements[i].station_id = widgets.station_id
                    /\ measurements[i].variable = v
                    /\ measurements[i].timestamp = t})

\* C6 amended: on the Departments page no timestamp occurs in two rows; on the
\* Station Data page, where nothing is aggregated, a timestamp has as many rows
\* as the store has RR rows for it (precipitation) or TX rows times TN rows
\* (temperature), so it is unique only if the store has one row per station,
\* variable and timestamp.
C6_UniqueAfterAggregation ==
    /\ (page = "Departments" /\ ChartsRan) =>
           \A type \in ChartTypes : UniqueTimestamps(tabs[type].df)
    /\ (page = "Station_Data" /\ ChartsRan) =>
           \A t \in Timestamps(measurements) :
               /\ RowsAt(tabs["precipitation"].df, t) = StoredAt("RR", t)
               /\ RowsAt(tabs["temperature"].df, t) = StoredAt("TX", t) * StoredAt("TN", t)

\* The Departments page shows a table built from two stored rows of the same
\* station, variable and timestamp.
C6_Witness ==
    /\ page = "Departments"
    /\ ChartsRan
    /\ widgets.slider[1] < widgets.slider[2]
    /\ \E i, j \in Selected("RR") :
          /\ i # j
          /\ measurements[i].station_id = measurements[j].station_id
          /\ measurements[i].timestamp = measurements[j].timestamp
    /\ tabs["precipitation"].df # <<>>

\* C7: Departments.get_time_series uses a measurement of the department and
\* the variable exactly if its timestamp lies between Jan 1 of the first year
\* and Jan 1 of the last year of the range, both included.
C7_DateRangeEndsOnJan1 ==
    (page = "Departments" /\ ChartsRan) =>
        \A v \in Variables :
            Timestamps(SeriesOf(v)) = {measurements[i].timestamp : i \in Selected(v)}

\* At the slider's default range a measurement of the last year dated after
\* Jan 1 is left out of a series that is not empty.
C7_Witness ==
    /\ page = "Departments"
    /\ ChartsRan
    /\ widgets.time_range = widgets.slider
    /\ widgets.slider[1] < widgets.slider[2]
    /\ \E v \in Variables :
          /\ SeriesOf(v) # <<>>
          /\ \E i \in 1 .. Len(measurements) :
                /\ InDepartment(i)
                /\ measurements[i].variable = v
                /\ measurements[i].timestamp[1] = widgets.time_range[2]
                /\ measurements[i].timestamp[2] > 1
                /\ measurements[i].timestamp \notin Timestamps(SeriesOf(v))

\* The sum of the values of the measurement rows at the positions J.
RECURSIVE SumOver(_)
SumOver(J) ==
    IF J = {} THEN 0
    ELSE LET j == CHOOSE x \in J : TRUE
         IN measurements[j].value[1] + SumOver(J \ {j})

\* x is the mean of the values at the positions J (NaN for none).
IsMean(J, x) ==
    IF J = {} THEN x = NaN
    ELSE x # NaN /\ x[1] * Cardinality(J) = x[2] * SumOver(J)

\* x is the median of the values at the positions J (NaN for none): a value of
\* J with fewer than half of the values on either side, or the midpoint of two
\* neighbouring values of J with exactly half of the values on either side.
IsMedian(J, x) ==
    IF J = {} THEN x = NaN
    ELSE /\ x # NaN
         /\ LET V(j) == measurements[j].value[1]
                n == Cardinality(J)
                below == Cardinality({j \in J : V(j) * x[2] < x[1]})
                above == Cardinality({j \in J : V(j) * x[2] > x[1]})
            IN \/ /\ \E j \in J : V(j) * x[2] = x[1]
                  /\ 2 * below < n
                  /\ 2 * above < n
               \/ /\ \E a, b \in J :
                        /\ V(a) < V(b)
                        /\ (V(a) + V(b)) * x[2] = 2 * x[1]
                        /\ \A j \in J : ~(V(a) < V(j) /\ V(j) < V(b))
                  /\ 2 * below = n
                  /\ 2 * above = n

\* The orders the rows of a table of n rows are tried in: every order for a
\* small table, the reverse order for a long one.
Shuffles(n) ==
    IF n <= MaxRows + 1
    THEN {f \in [1 .. n -> 1 .. n] : \A i, j \in 1 .. n : f[i] = f[j] => i = j}
    ELSE {[i \in 1 .. n |-> n + 1 - i]}

C10_ScaleBoundsValues ==
    ChartsRan =>
        /\ LET t == tabs["temperature"]
           IN \A c \in {"value_min", "value_max"} :
                  \A x \in Column(t.df, c) :
                      /\ t.min_max_scale[1] # NaN
                      /\ t.min_max_scale[2] # NaN
                      /\ RatLeq(t.min_max_scale[1], x)
                      /\ RatLeq(x, t.min_max_scale[2])
        /\ LET p == tabs["precipitation"]
               S == Column(p.df, "value")
           IN IF S = {} THEN p.min_max_scale = <<NaN, NaN>>
              ELSE /\ p.min_max_scale[1] \in S
                   /\ p.min_max_scale[2] \in S
                   /\ \A x \in S : /\ RatLeq(p.min_max_scale[1], x)
                                   /\ RatLeq(x, p.min_max_scale[2])

-----------------------------------------------------------------------------
(* Store Access called on its own, with any identifier *)

IdentInputs == GeoCodes \cup StationIds \cup StationColumns
VariableInputs == Variables \cup {"variable"}

StoreResult(fn, ident, variable, raised, rows, found) ==
    /\ page' = "StoreAccess"
    /\ widgets' = [NoWidgets EXCEPT !.department = ident, !.station_id = ident]
    /\ exception' = raised
    /\ tabs' = [call |-> fn, variable |-> variable, rows |-> rows, stations |-> found]
    /\ UNCHANGED <<stations, measurements>>

CallGetDepartmentTimerange(ident) ==
    /\ page = "none"
    /\ IF TimerangeRaises(ident) # "none"
       THEN StoreResult("get_department_timerange", ident, "", TimerangeRaises(ident),
                        <<>>, {})
       ELSE StoreResult("get_department_timerange", ident, "", "none",
                        DepartmentRows(ident), DepartmentStations(ident))

CallDepartmentTimeSeries(ident, variable) ==
    /\ page = "none"
    /\ IF ~BareParses(ident, StationColumns)
       THEN StoreResult("Departments.get_time_series", ident, variable, "DatabaseError",
                        <<>>, {})
       ELSE StoreResult("Departments.get_time_series", ident, variable, "none",
                        DepartmentSeriesRows(ident, variable, FirstYear,
                                             FirstYear + NumYears),
                        DepartmentStations(ident))

CallStationTimeSeries(ident, variable) ==
    /\ page = "none"
    /\ StoreResult("Station_Data.get_time_series", ident, variable, "none",
                   StationSeriesRows(ident, variable), {})

CallQueryStationInfo(ident) ==
    /\ page = "none"
    /\ StoreResult("query_station_info", ident, "", "none", <<>>,
                   query_station_info(ident))

InitStore ==
    /\ stations \in StationTables
    /\ measurements \in SmallStores(PrecipitationRows, MaxRows)
                          \cup SmallStores(DateRows, MaxRows)
    /\ InitRun

NextStore ==
    \/ \E ident \in IdentInputs : CallGetDepartmentTimerange(ident)
    \/ \E ident \in IdentInputs, variable \in VariableInputs :
            CallDepartmentTimeSeries(ident, variable)
    \/ \E ident \in IdentInputs, variable \in VariableInputs :
            CallStationTimeSeries(ident, variable)
    \/ \E ident \in IdentInputs : CallQueryStationInfo(ident)

SpecStore == InitStore /\ [][NextStore]_vars

\* C8: the identifier and the variable code act as values only: every row
\* Store Access reads belongs to a station whose department, or whose id, is
\* the requested identifier, and carries the requested variable code.
C8_InputsAreBoundValues ==
    page = "StoreAccess" =>
        /\ tabs.call \in {"get_department_timerange", "Departments.get_time_series"} =>
               /\ \A s \in tabs.stations :
                      /\ widgets.department \in DOMAIN DecimalValue
                      /\ stations[s] = <<DecimalValue[widgets.department]>>
               /\ \A i \in 1 .. Len(tabs.rows) : tabs.rows[i].station_id \in tabs.stations
        /\ tabs.call = "query_station_info" =>
               \A s \in tabs.stations : s = widgets.station_id
        /\ tabs.call = "Station_Data.get_time_series" =>
               \A i \in 1 .. Len(tabs.rows) : tabs.rows[i].station_id = widgets.station_id
        /\ tabs.call \in {"Departments.get_time_series", "Station_Data.get_time_series"} =>
               \A i \in 1 .. Len(tabs.rows) : tabs.rows[i].variable = tabs.variable

====
